---- MODULE Spec2Model ----
(***************************************************************************)
(* Model of the GO-term comparison core of src/main.py: _go_distance (with *)
(* its nested BFS _min_steps), _semantic_pairs and the comparison part of  *)
(* analyze_pdb; and of the polling loop of upload_and_get_result in         *)
(* src/deepfri.py.                                                         *)
(*                                                                         *)
(* Term ids are integers.  The ontology graph godag maps every resolvable  *)
(* term id to the set of its direct parents.  A Python set is modelled by  *)
(* the sequence in which it is iterated, a dict by the sequence of its     *)
(* (key, value) items in insertion order, a float by an exact fraction     *)
(* <<numerator, denominator>>.                                             *)
(***************************************************************************)
EXTENDS Integers, Sequences, FiniteSets, TLC

VARIABLES godag, descending, pc, go1, go2, dist,
          setA, setB, sim_threshold, scores, avg_score, high_pairs,
          ipro_go, df_go, result,
          poll_pc, max_wait, poll_interval, save_json, now, polled_at, resp,
          final_data

\* The state of a run of upload_and_get_result.
pollVars == <<poll_pc, max_wait, poll_interval, save_json, now, polled_at, resp,
              final_data>>

\* The state of the comparison core.
coreVars == <<godag, descending, pc, go1, go2, dist,
              setA, setB, sim_threshold, scores, avg_score, high_pairs,
              ipro_go, df_go, result>>

vars == <<coreVars, pollVars>>

\* ------------------------------------------------------------- bounds
\* Number of terms of the generated ontology graphs (SpecDistance).
NumTerms == 4
\* Largest annotation set handed to _semantic_pairs / analyze_pdb (Spec).
MaxSet == 2
\* Largest max_wait a caller of upload_and_get_result passes (SpecPoll).
MaxWait == 3
\* Longest time one status request takes (SpecPoll).
MaxDelay == 2

\* ------------------------------------------------------------- values
\* Python's None, as returned by godag.get and by _go_distance.
None == -1
\* An exception leaving _go_distance (attribute access on a None node).
Raised == -2

Min(S) == CHOOSE x \in S : \A y \in S : x <= y
Max(S) == CHOOSE x \in S : \A y \in S : x >= y

\* ------------------------------------------------------------- ontology graph
\* Term ids 1..NumTerms are candidates for GODag entries; 0 and NumTerms+1 are
\* ids that never resolve (obsolete or unknown terms).
Nodes == 1 .. NumTerms
TermIds == 0 .. (NumTerms + 1)

\* Every DAG over Nodes whose edges go from a term to a smaller term id
\* (GO is acyclic: a topological numbering always exists).
AllDags == {g \in [Nodes -> SUBSET Nodes] : \A n \in Nodes : \A p \in g[n] : p < n}

\* godag.get(go): the node (identified by its id) or None.
Get(go) == IF go \in DOMAIN godag THEN go ELSE None

\* node.get_all_parents(): every transitive parent of the node.
RECURSIVE GetAllParents(_)
GetAllParents(n) == UNION {{p} \cup GetAllParents(p) : p \in godag[n]}

\* The order in which "for par in node.parents" visits a set of parents: a
\* Python set has no fixed order, the model draws ascending or descending.
RECURSIVE IterParents(_)
IterParents(S) ==
  IF S = {} THEN <<>>
  ELSE LET p == IF descending THEN Max(S) ELSE Min(S)
       IN  <<p>> \o IterParents(S \ {p})

\* ------------------------------------------------------------- _min_steps
RECURSIVE Enqueue(_, _, _, _)
\* The loop "for par in node.parents: if par.id not in seen: ..." over the
\* parents in iteration order; yields <<queue, seen>>.
Enqueue(pars, step, queue, seen) ==
  IF pars = <<>> THEN <<queue, seen>>
  ELSE LET par == Head(pars)
       IN  IF par \notin seen
           THEN Enqueue(Tail(pars), step, Append(queue, <<par, step + 1>>), seen \cup {par})
           ELSE Enqueue(Tail(pars), step, queue, seen)

RECURSIVE BfsLoop(_, _, _)
\* The "while queue" loop of _min_steps.
BfsLoop(queue, seen, target_set) ==
  IF queue = <<>> THEN None
  ELSE LET cur  == Head(queue)[1]
           step == Head(queue)[2]
           rest == Tail(queue)
       IN  IF cur \in target_set THEN step
           ELSE LET node == Get(cur)
                IN  IF node = None THEN BfsLoop(rest, seen, target_set)
                    ELSE LET qs == Enqueue(IterParents(godag[node]), step, rest, seen)
                         IN  BfsLoop(qs[1], qs[2], target_set)

min_steps(start_go, target_set) ==
  BfsLoop(<< <<start_go, 0>> >>, {start_go}, target_set)

\* ------------------------------------------------------------- _go_distance
\* Mutant of EitherUnresolved: gives up only when both lookups fail.
BothUnresolved(a, b) == a = None /\ b = None

\* "if a is None or b is None".
EitherUnresolved(a, b) == a = None \/ b = None

\* Mutant of PathThrough: the second BFS result is not used.
PathThroughFirstOnly(da, db) == da + da

\* "da + db": the length of the path through one common ancestor.
PathThrough(da, db) == da + db

\* Mutant of Best: the last candidate wins instead of the smallest.
BestLargest(cands) == IF cands = {} THEN None ELSE Max(cands)

\* The fold "best = min(best, da + db) if best is not None else da + db".
Best(cands) == IF cands = {} THEN None ELSE Min(cands)

go_distance(g1, g2) ==
  IF g1 = g2 THEN 0
  ELSE LET a == Get(g1)
           b == Get(g2)
       IN  IF EitherUnresolved(a, b) THEN None
           ELSE IF a = None \/ b = None THEN Raised
           ELSE LET a_anc  == {g1} \cup GetAllParents(a)
                    b_anc  == {g2} \cup GetAllParents(b)
                    common == a_anc \cap b_anc
                    steps  == {<<min_steps(g1, {ca}), min_steps(g2, {ca})>> : ca \in common}
                IN  IF common = {} THEN None
                    ELSE Best({PathThrough(s[1], s[2]) :
                                 s \in {t \in steps : t[1] # None /\ t[2] # None}})

\* ------------------------------------------------------------- float arithmetic
\* Floats are exact fractions <<n, d>> in lowest terms with d > 0.
RECURSIVE Gcd(_, _)
Gcd(m, n) == IF n = 0 THEN m ELSE Gcd(n, m % n)

Frac(n, d) == LET g == Gcd(n, d) IN IF g = 0 THEN <<n, d>> ELSE <<n \div g, d \div g>>

Zero == Frac(0, 1)

Gt(x, y) == x[1] * y[2] > y[1] * x[2]
Ge(x, y) == x[1] * y[2] >= y[1] * x[2]

Add(x, y) == Frac(x[1] * y[2] + y[1] * x[2], x[2] * y[2])

\* ------------------------------------------------------------- _semantic_pairs
\* The second component of the placeholder pair (a, "", 0.0).
NoPartner == -3

\* "sim = 1 / (1 + d) if d is not None else 0.0".
Similarity(d) == IF d # None THEN Frac(1, 1 + d) ELSE Zero

\* Mutant of Better: an equal score replaces the partner found earlier.
BetterOrEqual(sim, best) == Ge(sim, best)

\* "if sim > best".
Better(sim, best) == Gt(sim, best)

RECURSIVE BestMatch(_, _, _, _)
\* The loop "for b in setB" for one a; yields <<best, pair>>.
BestMatch(a, bs, best, pair) ==
  IF bs = <<>> THEN <<best, pair>>
  ELSE LET b   == Head(bs)
           sim == Similarity(go_distance(a, b))
       IN  IF Better(sim, best)
           THEN BestMatch(a, Tail(bs), sim, <<a, b, sim>>)
           ELSE BestMatch(a, Tail(bs), best, pair)

\* Mutant of Recordable: a term without reachable partner is listed with score 0.
RecordableAlways(best) == Ge(best, Zero)

\* "if best > 0".
Recordable(best) == Gt(best, Zero)

RECURSIVE ScoresLoop(_, _, _)
\* The loop "for a in setA"; yields the list scores.
ScoresLoop(as, bs, acc) ==
  IF as = <<>> THEN acc
  ELSE LET a  == Head(as)
           bp == BestMatch(a, bs, Zero, <<a, NoPartner, Zero>>)
       IN  IF Recordable(bp[1])
           THEN ScoresLoop(Tail(as), bs, Append(acc, bp[2]))
           ELSE ScoresLoop(Tail(as), bs, acc)

RECURSIVE SumScores(_)
\* "sum(s for _, _, s in scores)".
SumScores(ps) == IF ps = <<>> THEN Zero ELSE Add(Head(ps)[3], SumScores(Tail(ps)))

\* Mutant of IsHigh: the boundary is exclusive.
IsHighStrict(s, thr) == Gt(s, thr)

\* "if s >= sim_threshold".
IsHigh(s, thr) == Ge(s, thr)

\* "[(a, b, s) for a, b, s in scores if s >= sim_threshold]".
HighPairs(ps, thr) == SelectSeq(ps, LAMBDA p : IsHigh(p[3], thr))

\* Mutant of AvgScore: the sum is not divided by the number of pairs.
AvgScoreNoDivision(ps) == SumScores(ps)

\* "avg_score = sum(s for _, _, s in scores) / len(scores)".
AvgScore(ps) == LET sm == SumScores(ps) IN Frac(sm[1], sm[2] * Len(ps))

\* _semantic_pairs(setA, setB, sim_threshold): <<scores, avg_score, high_pairs>>,
\* of which the code returns the last two.
semantic_pairs(as, bs, thr) ==
  LET sc == ScoresLoop(as, bs, <<>>)
  IN  IF sc = <<>> THEN <<sc, Zero, <<>>>>
      ELSE <<sc, AvgScore(sc), HighPairs(sc, thr)>>

\* ------------------------------------------------------------- analyze_pdb
\* The literal cut-off of "df_go[go] >= 0.8".
ConfCutoff == Frac(4, 5)

\* set(s): the contents of an iterated set or of a key sequence.
Elems(s) == {s[i] : i \in DOMAIN s}

\* df_go.keys(), in insertion order.
Keys(d) == [i \in DOMAIN d |-> d[i][1]]

\* df_go[go].
Lookup(d, go) == LET i == CHOOSE k \in DOMAIN d : d[k][1] = go IN d[i][2]

\* Mutant of Jaccard: the denominator adds the two sizes instead of taking
\* the size of the union.
JaccardSumOfSizes(ipro, df) ==
  LET common == Elems(ipro) \cap Elems(Keys(df))
  IN  IF Elems(ipro) \cup Elems(Keys(df)) # {}
      THEN Frac(Cardinality(common), Len(ipro) + Len(df))
      ELSE Zero

\* "len(common) / len(ipro_go | df_go.keys()) if (ipro_go | df_go.keys()) else 0.0".
Jaccard(ipro, df) ==
  LET common == Elems(ipro) \cap Elems(Keys(df))
      union  == Elems(ipro) \cup Elems(Keys(df))
  IN  IF union # {} THEN Frac(Cardinality(common), Cardinality(union)) ELSE Zero

\* Mutant of Exclusive: the common terms are not removed.
ExclusiveUnfiltered(xs, ys) == Elems(xs)

\* "ipro_go - df_go.keys()" and "df_go.keys() - ipro_go".
Exclusive(xs, ys) == Elems(xs) \ Elems(ys)

\* The dict returned by analyze_pdb for the annotations ipro (InterPro's set)
\* and df (DeepFRI's dict), with the locals of the nested _semantic_pairs call.
analyze_pdb(ipro, df, sem_sim_threshold) ==
  LET keys   == Keys(df)
      common == Elems(ipro) \cap Elems(keys)
      ipro_only == Exclusive(ipro, keys)
      df_only   == Exclusive(keys, ipro)
      high_conf_common == {go \in common : Ge(Lookup(df, go), ConfCutoff)}
      sp == semantic_pairs(ipro, keys, sem_sim_threshold)
  IN  [ interpro_count         |-> Len(ipro),
        deepfri_count          |-> Len(df),
        common                 |-> common,
        common_count           |-> Cardinality(common),
        high_confidence_common |-> high_conf_common,
        high_confidence_count  |-> Cardinality(high_conf_common),
        interpro_only          |-> ipro_only,
        interpro_only_count    |-> Cardinality(ipro_only),
        deepfri_only           |-> df_only,
        deepfri_only_count     |-> Cardinality(df_only),
        jaccard                |-> Jaccard(ipro, df),
        deepfri_scores         |-> df,
        semantic_avg_sim       |-> sp[2],
        semantic_pairs         |-> sp[3],
        semantic_pairs_count   |-> Len(sp[3]) ]

\* ------------------------------------------------------------- inputs
\* The ontology graphs of the comparison runs: a root 1 with the two children
\* 2 and 3, and two unrelated roots 1 and 2 with the common child 3.
ExampleDags == { <<{}, {1}, {1}>>, <<{}, {}, {1, 2}>> }

\* Term ids of the annotation sets: the terms of the example graphs and the
\* unresolvable id 0.
AnnotationIds == {0} \cup UNION {DOMAIN g : g \in ExampleDags}

\* Iteration orders of the sets of at most MaxSet terms.
OrderedSets ==
  UNION { {s \in [1 .. n -> AnnotationIds] : \A i, j \in 1 .. n : i # j => s[i] # s[j]} :
            n \in 0 .. MaxSet }

\* Similarity thresholds a caller passes (0.7 is the default).
SimThresholds == {Frac(1, 2), Frac(7, 10)}

\* Confidence scores DeepFRI reports.
ScoreValues == {Frac(1, 2), Frac(4, 5)}

\* The DeepFRI dicts over a key sequence.
ScoredDicts(keys) ==
  {[i \in DOMAIN keys |-> <<keys[i], sc[i]>>] : sc \in [DOMAIN keys -> ScoreValues]}

\* All orders of a sequence without repetitions.
Reorderings(s) ==
  {[i \in DOMAIN s |-> s[f[i]]] : f \in {g \in [DOMAIN s -> DOMAIN s] :
                                           \A i, j \in DOMAIN s : i # j => g[i] # g[j]}}

\* ------------------------------------------------------------- state machine
Idle ==
  /\ pc = "idle"
  /\ go1 = None /\ go2 = None /\ dist = None
  /\ setA = <<>> /\ setB = <<>> /\ sim_threshold = <<0, 1>>
  /\ scores = <<>> /\ avg_score = <<0, 1>> /\ high_pairs = <<>>
  /\ ipro_go = <<>> /\ df_go = <<>> /\ result = <<>>

\* No status response has been read.
NoResponse == [ok |-> TRUE, body |-> "none", state |-> "", data |-> 0]

\* upload_and_get_result is not running.
NotPolling ==
  /\ poll_pc = "notstarted"
  /\ max_wait = 0 /\ poll_interval = 0 /\ save_json = FALSE
  /\ now = 0 /\ polled_at = 0 /\ resp = NoResponse /\ final_data = None

InitDistance ==
  /\ godag \in AllDags
  /\ descending \in BOOLEAN
  /\ Idle
  /\ NotPolling

\* A call _go_distance(g1, g2).
GoDistance ==
  /\ pc = "idle"
  /\ \E g1 \in TermIds, g2 \in TermIds :
       /\ go1' = g1
       /\ go2' = g2
       /\ dist' = go_distance(g1, g2)
  /\ pc' = "distance"
  /\ UNCHANGED <<godag, descending, setA, setB, sim_threshold, scores, avg_score,
                 high_pairs, ipro_go, df_go, result, pollVars>>

\* The caller is done with the returned value; the next call can start.
Return ==
  /\ pc # "idle"
  /\ pc' = "idle"
  /\ go1' = None /\ go2' = None /\ dist' = None
  /\ setA' = <<>> /\ setB' = <<>> /\ sim_threshold' = <<0, 1>>
  /\ scores' = <<>> /\ avg_score' = <<0, 1>> /\ high_pairs' = <<>>
  /\ ipro_go' = <<>> /\ df_go' = <<>> /\ result' = <<>>
  /\ UNCHANGED <<godag, descending, pollVars>>

\* A call _semantic_pairs(setA, setB, sim_threshold); the sets are given by
\* the order in which the call iterates them.
SemanticPairs ==
  /\ pc = "idle"
  /\ \E as \in OrderedSets, bs \in OrderedSets, thr \in SimThresholds :
       LET sp == semantic_pairs(as, bs, thr)
       IN  /\ setA' = as
           /\ setB' = bs
           /\ sim_threshold' = thr
           /\ scores' = sp[1]
           /\ avg_score' = sp[2]
           /\ high_pairs' = sp[3]
  /\ pc' = "pairs"
  /\ UNCHANGED <<godag, descending, go1, go2, dist, ipro_go, df_go, result, pollVars>>

\* The comparison of analyze_pdb on the annotations ipro and df fetched from
\* the two services.
Analyze(ipro, df, thr) ==
  LET sp == semantic_pairs(ipro, Keys(df), thr)
  IN  /\ ipro_go' = ipro
      /\ df_go' = df
      /\ setA' = ipro
      /\ setB' = Keys(df)
      /\ sim_threshold' = thr
      /\ scores' = sp[1]
      /\ avg_score' = sp[2]
      /\ high_pairs' = sp[3]
      /\ result' = analyze_pdb(ipro, df, thr)
      /\ pc' = "analyze"
      /\ UNCHANGED <<godag, descending, go1, go2, dist, pollVars>>

\* A call analyze_pdb(pdb_path, email, sem_sim_threshold).
AnalyzePdb ==
  /\ pc = "idle"
  /\ \E ipro \in OrderedSets, keys \in OrderedSets, thr \in SimThresholds :
       \E df \in ScoredDicts(keys) : Analyze(ipro, df, thr)

Init ==
  /\ godag \in ExampleDags
  /\ descending \in BOOLEAN
  /\ Idle
  /\ NotPolling

Next == GoDistance \/ SemanticPairs \/ AnalyzePdb \/ Return

Spec == Init /\ [][Next]_vars

NextDistance == GoDistance \/ Return

SpecDistance == InitDistance /\ [][NextDistance]_vars

\* ------------------------------------------------------------- upload_and_get_result
\* Time is counted in ticks since "start = time.time()"; every status request
\* takes at least one tick.

\* The poll intervals a caller passes (2 is the default).
PollIntervals == {0, 2}

\* The "state" values of a prediction; "" stands for a missing state.
TaskStates == {"", "running", "finished", "failed"}

\* The "data" of a prediction: 0 is empty or missing data, 1 a prediction dict.
TaskData == {0, 1}

\* What a status request returns: an HTTP error status; a body without
\* "prediction" whose "predictions" list is empty; or a prediction info.
Responses ==
  {[ok |-> FALSE, body |-> "none", state |-> "", data |-> 0],
   [ok |-> TRUE, body |-> "empty_list", state |-> "", data |-> 0]}
  \cup {[ok |-> TRUE, body |-> "info", state |-> st, data |-> dt] :
          st \in TaskStates, dt \in TaskData}

\* Mutant of Done: empty data is accepted.
DoneWithoutData(r) == r.state = "finished"

\* "if state == 'finished' and info.get('data')".
Done(r) == r.state = "finished" /\ r.data # 0

\* Mutant of TimedOut: the bound itself already times out.
TimedOutAtBound(t, mw) == t >= mw

\* "if time.time() - start > max_wait".
TimedOut(t, mw) == t > mw

\* One pass of the "while True" body on the response r read at time t: where
\* the function goes next.
PollStep(r, t, mw) ==
  IF ~r.ok THEN "HTTPError"
  ELSE IF r.body = "empty_list" THEN "IndexError"
  ELSE IF Done(r) THEN "saving"
  ELSE IF r.state = "failed" THEN "RuntimeError"
  ELSE IF TimedOut(t, mw) THEN "TimeoutError"
  ELSE "polling"

\* The function has been entered, the upload succeeded and "start" is set.
InitPoll ==
  /\ godag = <<>>
  /\ descending = FALSE
  /\ Idle
  /\ poll_pc = "polling"
  /\ max_wait \in 0 .. MaxWait
  /\ poll_interval \in PollIntervals
  /\ save_json \in BOOLEAN
  /\ now = 0 /\ polled_at = 0 /\ resp = NoResponse /\ final_data = None

\* One iteration of the polling loop: the status request, the checks on its
\* response and, when none of them leaves the loop, the sleep.
Poll ==
  /\ poll_pc = "polling"
  /\ \E d \in 1 .. MaxDelay, r \in Responses :
       LET t    == now + d
           next == PollStep(r, t, max_wait)
       IN  /\ resp' = r
           /\ polled_at' = t
           /\ poll_pc' = next
           /\ final_data' = IF next = "saving" THEN r.data ELSE final_data
           /\ now' = IF next = "polling" THEN t + poll_interval ELSE t
  /\ UNCHANGED <<max_wait, poll_interval, save_json, coreVars>>

\* After the loop: the JSON file is written when save_json is set (the write
\* can fail), then final_data is returned.
SaveAndReturn ==
  /\ poll_pc = "saving"
  /\ \E written \in BOOLEAN :
       poll_pc' = IF save_json /\ ~written THEN "OSError" ELSE "returned"
  /\ UNCHANGED <<max_wait, poll_interval, save_json, now, polled_at, resp,
                 final_data, coreVars>>

NextPoll == Poll \/ SaveAndReturn

\* The interpreter keeps executing the function: no step waits for anything
\* but the status request, which is assumed to return.
SpecPoll == InitPoll /\ [][NextPoll]_vars /\ WF_vars(Poll) /\ WF_vars(SaveAndReturn)

\* ------------------------------------------------------------- distance claims
\* Reference notions, defined on the graph alone (no BFS, no ancestor closure
\* of the library): the fewest parent edges leading from a up to c, or None.
RECURSIVE UpSteps(_, _)
UpSteps(a, c) ==
  IF a = c THEN 0
  ELSE LET via == {UpSteps(p, c) : p \in godag[a]} \ {None}
       IN  IF via = {} THEN None ELSE 1 + Min(via)

CommonAncestors(a, b) ==
  {c \in DOMAIN godag : UpSteps(a, c) # None /\ UpSteps(b, c) # None}

Resolves(t) == t \in DOMAIN godag

\* The graph of the worked example: root R = 1, children X = 2 and Y = 3 of R,
\* child Z = 4 of X.
IsExampleDag ==
  /\ godag[1] = {} /\ godag[2] = {1} /\ godag[3] = {1} /\ godag[4] = {2}

\* C1: for distinct resolvable terms go1, go2 the returned distance is the
\* minimum over all common ancestors c (a term is its own ancestor) of
\* fewest-edges(go1 up to c) + fewest-edges(go2 up to c); it is None exactly
\* when there is no common ancestor; on the example graph d(X,Y) = 2,
\* d(Z,Y) = 3 and d(Z,X) = 1.
C1_DistanceIsMinOverCommonAncestors ==
  (pc = "distance" /\ go1 # go2 /\ Resolves(go1) /\ Resolves(go2)) =>
     LET ca == CommonAncestors(go1, go2)
     IN  /\ (dist = None) <=> (ca = {})
         /\ ca # {} => dist = Min({UpSteps(go1, c) + UpSteps(go2, c) : c \in ca})
         /\ IsExampleDag =>
              /\ (go1 = 2 /\ go2 = 3) => dist = 2
              /\ (go1 = 4 /\ go2 = 3) => dist = 3
              /\ (go1 = 4 /\ go2 = 2) => dist = 1

\* A call on two distinct terms with two common ancestors at different total
\* lengths, the nearer one not being the first term itself.
C1_Witness ==
  /\ pc = "distance" /\ go1 # go2 /\ Resolves(go1) /\ Resolves(go2)
  /\ Cardinality(CommonAncestors(go1, go2)) >= 2
  /\ go1 \notin CommonAncestors(go1, go2)
  /\ go2 \notin CommonAncestors(go1, go2)
  /\ \E c \in CommonAncestors(go1, go2) : UpSteps(go1, c) + UpSteps(go2, c) > dist
  /\ dist = 2

\* C2: the distance is symmetric: the value returned for (go1, go2) is the
\* value the function yields for (go2, go1), an integer or None alike.
C2_DistanceSymmetric ==
  (pc = "distance" /\ Resolves(go1) /\ Resolves(go2)) =>
     dist = go_distance(go2, go1)

\* A call whose two terms lie at different depths below their nearest common
\* ancestor.
C2_Witness ==
  /\ pc = "distance" /\ go1 # go2 /\ Resolves(go1) /\ Resolves(go2)
  /\ dist # None
  /\ \E c \in CommonAncestors(go1, go2) :
        /\ UpSteps(go1, c) + UpSteps(go2, c) = dist
        /\ UpSteps(go1, c) = 2 /\ UpSteps(go2, c) = 1

\* C3 as stated: whenever an argument does not resolve the result is None,
\* also when both arguments are the same unresolvable id.
C3_UnresolvedAlwaysNone ==
  (pc = "distance" /\ (~Resolves(go1) \/ ~Resolves(go2))) => dist = None

\* C3 as amended: no call raises; two different arguments of which one does
\* not resolve give None; two equal arguments give 0, resolvable or not.
C3_UnresolvedNoneUnlessEqual ==
  pc = "distance" =>
     /\ dist # Raised
     /\ (go1 # go2 /\ (~Resolves(go1) \/ ~Resolves(go2))) => dist = None
     /\ go1 = go2 => dist = 0

\* A call whose first argument resolves and whose second does not.
C3_Witness ==
  /\ pc = "distance" /\ Resolves(go1) /\ ~Resolves(go2) /\ dist = None

\* ------------------------------------------------------------- comparison claims
\* The two term sets of an analyze_pdb run, read off its inputs.
TermsA == {ipro_go[i] : i \in DOMAIN ipro_go}
TermsB == {df_go[i][1] : i \in DOMAIN df_go}

\* Reference arithmetic on fractions, by cross-multiplication.
SameValue(x, y) == x[1] * y[2] = y[1] * x[2]
AtLeast(x, y) == x[1] * y[2] >= y[1] * x[2]

\* Sum of the scores of a pair list as an unreduced fraction.
RECURSIVE ScoreTotal(_, _)
ScoreTotal(ps, n) ==
  IF n = 0 THEN <<0, 1>>
  ELSE LET t == ScoreTotal(ps, n - 1)
           s == ps[n][3]
       IN  <<t[1] * s[2] + s[1] * t[2], t[2] * s[2]>>

\* m is the arithmetic mean of the scores of the non-empty pair list ps.
IsMeanOf(m, ps) ==
  LET t == ScoreTotal(ps, Len(ps))
  IN  m[2] > 0 /\ m[1] * t[2] * Len(ps) = t[1] * m[2]

\* The sub-list of ps with score >= thr.
AtLeastThreshold(ps, thr) == SelectSeq(ps, LAMBDA q : AtLeast(q[3], thr))

\* C4: the reported Jaccard index is |intersection| / |union| of the two term
\* sets, 0.0 when both are empty and 1.0 when they are equal and non-empty.
C4_JaccardIsIntersectionOverUnion ==
  pc = "analyze" =>
     LET j == result.jaccard
     IN  /\ (TermsA \cup TermsB = {}) => j = <<0, 1>>
         /\ (TermsA \cup TermsB # {}) =>
               /\ j[2] > 0
               /\ j[1] * Cardinality(TermsA \cup TermsB) = Cardinality(TermsA \cap TermsB) * j[2]
         /\ (TermsA = TermsB /\ TermsA # {}) => j = <<1, 1>>

\* Two different overlapping sets: one common term out of three.
C4_Witness ==
  /\ pc = "analyze"
  /\ Cardinality(TermsA \cap TermsB) = 1
  /\ Cardinality(TermsA \cup TermsB) = 3
  /\ result.jaccard = <<1, 3>>

\* Thresholds a caller may want for the confidence filter.
CallerConfidenceThresholds == {Frac(1, 2), Frac(4, 5)}

\* C5 as stated: whatever confidence threshold the caller chooses, the
\* high-confidence intersection is the set of common terms whose DeepFRI
\* score is >= that threshold.
C5_FilterUsesCallerThreshold ==
  pc = "analyze" =>
     \A t \in CallerConfidenceThresholds :
        result.high_confidence_common =
          {go \in TermsA \cap TermsB : AtLeast(Lookup(df_go, go), t)}

\* C6: a term of setA is recorded iff some term of setB has a defined
\* distance to it; recorded scores lie in (0, 1]; the returned mean is the
\* mean of all recorded pairs, and 0.0 with an empty pair list when nothing
\* was recorded.
C6_RecordedPairsAndMean ==
  pc \in {"pairs", "analyze"} =>
     /\ \A i \in DOMAIN setA :
           (\E k \in DOMAIN scores : scores[k][1] = setA[i])
             <=> (\E j \in DOMAIN setB : go_distance(setA[i], setB[j]) # None)
     /\ \A k \in DOMAIN scores :
           /\ scores[k][1] \in Elems(setA)
           /\ scores[k][3][1] > 0
           /\ scores[k][3][1] <= scores[k][3][2]
     /\ scores # <<>> => IsMeanOf(avg_score, scores)
     /\ scores = <<>> => (avg_score = <<0, 1>> /\ high_pairs = <<>>)

\* A call in which one term of setA is recorded, another is not, and the
\* recorded pair is below the threshold yet counted in the mean.
C6_Witness ==
  /\ pc = "pairs"
  /\ Len(setA) = 2 /\ Len(scores) = 1 /\ high_pairs = <<>>
  /\ avg_score = <<1, 3>>

\* C7: the returned high-similarity list is the sub-list of the recorded
\* pairs with score >= threshold (inclusive), each pair unchanged.
C7_HighPairsInclusiveSublist ==
  pc \in {"pairs", "analyze"} =>
     high_pairs = AtLeastThreshold(scores, sim_threshold)

\* A recorded pair exactly at the threshold is kept, one below it is dropped.
C7_Witness ==
  /\ pc = "pairs"
  /\ Len(scores) = 2 /\ Len(high_pairs) = 1
  /\ high_pairs[1][3] = sim_threshold
  /\ \E k \in DOMAIN scores : ~AtLeast(scores[k][3], sim_threshold)

\* C8 as stated: semantic_avg_sim is the mean of the scores of exactly the
\* pairs listed in semantic_pairs, and semantic_pairs_count is their number.
C8_MeanOfListedPairs ==
  pc = "analyze" =>
     /\ result.semantic_pairs_count = Len(result.semantic_pairs)
     /\ result.semantic_pairs # <<>> =>
           IsMeanOf(result.semantic_avg_sim, result.semantic_pairs)
     /\ result.semantic_pairs = <<>> => result.semantic_avg_sim = <<0, 1>>

\* C8 as amended: semantic_pairs lists only the best-match pairs whose score
\* is >= sem_sim_threshold, at most one per term of the first set;
\* semantic_avg_sim is the mean over all recorded best-match pairs, listed or
\* not; semantic_pairs_count is the number of listed pairs.
C8_MeanOfRecordedListOfHigh ==
  pc = "analyze" =>
     /\ result.semantic_pairs = AtLeastThreshold(scores, sim_threshold)
     /\ \A i, j \in DOMAIN result.semantic_pairs :
           result.semantic_pairs[i][1] = result.semantic_pairs[j][1] => i = j
     /\ \A i \in DOMAIN result.semantic_pairs : result.semantic_pairs[i][1] \in TermsA
     /\ result.semantic_pairs_count = Len(result.semantic_pairs)
     /\ scores # <<>> => IsMeanOf(result.semantic_avg_sim, scores)
     /\ scores = <<>> => result.semantic_avg_sim = <<0, 1>>

\* A result that lists one pair while the mean also covers an unlisted one.
C8_Witness ==
  /\ pc = "analyze"
  /\ Len(scores) = 2
  /\ result.semantic_pairs_count = 1
  /\ ~IsMeanOf(result.semantic_avg_sim, result.semantic_pairs)

\* The fields of two results that C9 compares.
SameContents(r1, r2) ==
  /\ r1.common = r2.common
  /\ r1.high_confidence_common = r2.high_confidence_common
  /\ r1.interpro_only = r2.interpro_only
  /\ r1.deepfri_only = r2.deepfri_only
  /\ r1.jaccard = r2.jaccard
  /\ r1.semantic_avg_sim = r2.semantic_avg_sim
  /\ r1.semantic_pairs = r2.semantic_pairs

\* C9 as stated: a second run on the same annotations, graph and threshold
\* yields the same contents as this run, in whatever order it iterates the
\* InterPro set and the DeepFRI dict.
C9_SameResultInAnyOrder ==
  pc = "analyze" =>
     \A ipro \in Reorderings(ipro_go), df \in Reorderings(df_go) :
        SameContents(analyze_pdb(ipro, df, sim_threshold), result)

\* Similarity of two terms as the claim defines it.
ClaimedSimilarity(a, b) ==
  LET d == go_distance(a, b) IN IF d # None THEN <<1, 1 + d>> ELSE <<0, 1>>

\* C10: each recorded pair (a, b, s) has s = max over setB of the similarity
\* to a, and b is the first term of setB, in iteration order, attaining it.
C10_BestScoreFirstPartner ==
  pc \in {"pairs", "analyze"} =>
     \A k \in DOMAIN scores :
        LET a == scores[k][1]
            b == scores[k][2]
            s == scores[k][3]
        IN  /\ \A j \in DOMAIN setB : AtLeast(s, ClaimedSimilarity(a, setB[j]))
            /\ \E j \in DOMAIN setB :
                  /\ setB[j] = b
                  /\ SameValue(ClaimedSimilarity(a, b), s)
                  /\ \A i \in 1 .. (j - 1) : ~SameValue(ClaimedSimilarity(a, setB[i]), s)

\* Two terms of setB tie for the best score and the first one is recorded.
C10_Witness ==
  /\ pc = "pairs"
  /\ Len(setB) = 2 /\ Len(scores) = 1
  /\ scores[1][2] = setB[1]
  /\ SameValue(ClaimedSimilarity(scores[1][1], setB[2]), scores[1][3])

\* C11: in every result common, interpro_only and deepfri_only are pairwise
\* disjoint and cover exactly the union of the two input term sets;
\* high_confidence_common is a subset of common; interpro_count =
\* common_count + interpro_only_count, deepfri_count = common_count +
\* deepfri_only_count, and every count is the size of the set it names.
C11_PartitionAndCounts ==
  pc = "analyze" =>
     /\ result.common \cap result.interpro_only = {}
     /\ result.common \cap result.deepfri_only = {}
     /\ result.interpro_only \cap result.deepfri_only = {}
     /\ result.common \cup result.interpro_only \cup result.deepfri_only = TermsA \cup TermsB
     /\ result.high_confidence_common \subseteq result.common
     /\ result.interpro_count = result.common_count + result.interpro_only_count
     /\ result.deepfri_count = result.common_count + result.deepfri_only_count
     /\ result.interpro_count = Cardinality(TermsA)
     /\ result.deepfri_count = Cardinality(TermsB)
     /\ result.common_count = Cardinality(result.common)
     /\ result.high_confidence_count = Cardinality(result.high_confidence_common)
     /\ result.interpro_only_count = Cardinality(result.interpro_only)
     /\ result.deepfri_only_count = Cardinality(result.deepfri_only)

\* A result in which all three parts are non-empty and the common term is
\* not high-confidence.
C11_Witness ==
  /\ pc = "analyze"
  /\ result.interpro_only # {} /\ result.deepfri_only # {}
  /\ result.common_count = 1 /\ result.high_confidence_count = 0

\* ------------------------------------------------------------- polling claims
\* The function has left the loop and ended, by return or by exception.
Ended == poll_pc \notin {"polling", "saving"}

\* The last response was a finished prediction with data / a failed one.
SawFinishedWithData == resp.ok /\ resp.body = "info" /\ resp.state = "finished" /\ resp.data # 0
SawFailed == resp.ok /\ resp.body = "info" /\ resp.state = "failed"

\* What C12 says of the three ways to end, and of a loop still running.
ThreeWays ==
  /\ poll_pc \in {"saving", "returned"} => (SawFinishedWithData /\ final_data = resp.data)
  /\ poll_pc = "RuntimeError" => SawFailed
  /\ poll_pc = "TimeoutError" =>
        (polled_at > max_wait /\ ~SawFinishedWithData /\ ~SawFailed)
  /\ (poll_pc = "polling" /\ resp # NoResponse) =>
        (polled_at <= max_wait /\ ~SawFinishedWithData /\ ~SawFailed)

\* C12 as stated (its safety part): once the function has ended it has
\* returned the data, raised RuntimeError or raised TimeoutError, each under
\* the stated observation.
C12_EndsInOneOfThreeWays ==
  /\ ThreeWays
  /\ Ended => poll_pc \in {"returned", "RuntimeError", "TimeoutError"}

\* The last response read had a success status and a prediction entry (any
\* earlier response without them has ended the function).
WellFormed == resp.ok /\ resp.body # "empty_list"

C12_Outcomes ==
  /\ ThreeWays
  /\ (Ended /\ WellFormed) => poll_pc \in {"returned", "RuntimeError", "TimeoutError", "OSError"}
  /\ poll_pc = "OSError" => (save_json /\ SawFinishedWithData)
  /\ poll_pc = "HTTPError" <=> ~resp.ok
  /\ poll_pc = "IndexError" <=> (resp.ok /\ resp.body = "empty_list")
  /\ poll_pc \in {"polling", "saving", "returned", "RuntimeError", "TimeoutError",
                  "HTTPError", "IndexError", "OSError"}

\* C12 as amended: the function always ends; it ends by returning the data
\* (only after a finished prediction with non-empty data), by RuntimeError
\* on a failed prediction, by TimeoutError at the first poll completing later
\* than max_wait without either observation, or, beyond the three ways
\* stated, by the error of a response with an HTTP error status or without
\* prediction entry, or by the error of writing the JSON file; finished with
\* empty data keeps polling.
C12_PollingEndsWithKnownOutcome == []C12_Outcomes /\ <>Ended

\* A run that polled more than once and timed out on a response that said
\* "finished" without data.
C12_Witness ==
  /\ poll_pc = "TimeoutError"
  /\ resp.state = "finished" /\ resp.data = 0
  /\ polled_at > MaxDelay
  /\ max_wait > 0

====
